---------------------------- MODULE Spec2Model ----------------------------
(* A model of web_scraper.py: the crawl loop (process_queue), the page     *)
(* scraper (scrape_page), the URL helpers and the "Start Scraping" handler. *)
(*                                                                          *)
(* A URL string is represented by the components urllib.parse.urlparse     *)
(* splits it into: [scheme, netloc, path, fragment].  The empty string has  *)
(* all components empty.  Two URL strings are equal iff their components    *)
(* are.                                                                     *)
EXTENDS Integers, Sequences, FiniteSets, TLC

VARIABLES
    scraped_data,      \* st.session_state.scraped_data: list of page records
    visited_urls,      \* st.session_state.visited_urls: set of URLs
    queue,             \* st.session_state.queue: deque of URLs
    base_url,          \* sidebar text input, as read when the button was pressed
    max_pages,         \* sidebar slider, as read by process_queue
    include_external,  \* sidebar checkbox, as read by process_queue
    base_domain,       \* argument of process_queue
    pc,                \* position of the script: "idle", "running", "completed"
    message,           \* what the handler last reported (st.error / st.success)
    fetch_log,         \* every requests.get of the current run: the URL and
                       \* what came back (an exception, or a status code)
    progress_log,      \* every value handed to progress_bar.progress in the run
    sleeps,            \* number of time.sleep(delay) calls of the run
    stale,             \* history: the session state held records, visited URLs
                       \* and queue entries when the last run was started
    wire               \* what requests.get delivers to a call of scrape_page
                       \* made on its own (the crawl draws it in its iteration)

vars == <<scraped_data, visited_urls, queue, base_url, max_pages,
          include_external, base_domain, pc, message, fetch_log,
          progress_log, sleeps, stale, wire>>

session_state == <<scraped_data, visited_urls, queue>>

-----------------------------------------------------------------------------
(* Bounds of the model *)

\* the slider of max_pages ranges over 1..MaxPages (1..100 in the program)
MaxPages == 3
\* a fetched page carries at most MaxLinks anchors
MaxLinks == 2

-----------------------------------------------------------------------------
(* URLs *)

UrlFrag(s, n, p, f) == [scheme |-> s, netloc |-> n, path |-> p, fragment |-> f]

Url(s, n, p) == UrlFrag(s, n, p, "")

EmptyUrl == Url("", "", "")

\* what the user may type into the sidebar text input
SeedInputs ==
    { EmptyUrl,                          \* ""
      Url("", "", "a.com/p1"),           \* "a.com/p1": no scheme, no host
      Url("mailto", "", "x@a.com"),      \* "mailto:x@a.com": a scheme, no host
      Url("https", "a.com", "/"),        \* "https://a.com/"
      Url("https", "b.com", "/") }       \* "https://b.com/"

\* the href attribute values an anchor of a fetched page may carry
Hrefs ==
    { Url("", "", "/p1"),                \* "/p1"
      Url("https", "b.com", "/"),        \* "https://b.com/"
      Url("mailto", "", "x@a.com") }     \* "mailto:x@a.com"

\* urllib.parse.uses_relative / uses_netloc, restricted to the schemes above
uses_relative == {"", "http", "https"}
uses_netloc == {"", "http", "https"}

\* urljoin(base, url) of urllib.parse, for hrefs whose path is empty or absolute
urljoin(base, url) ==
    IF base = EmptyUrl THEN url
    ELSE IF url = EmptyUrl THEN base
    ELSE LET scheme == IF url.scheme = "" THEN base.scheme ELSE url.scheme IN
         IF scheme # base.scheme \/ scheme \notin uses_relative THEN url
         ELSE IF scheme \in uses_netloc /\ url.netloc # ""
              THEN UrlFrag(scheme, url.netloc, url.path, url.fragment)
         ELSE IF url.path = ""
              THEN UrlFrag(scheme, base.netloc, base.path, url.fragment)
         ELSE UrlFrag(scheme, base.netloc, url.path, url.fragment)

\* a variant of is_valid_url that only asks for a scheme
is_valid_url_scheme_only(url) == url.scheme # ""

\* is_valid_url: all([result.scheme, result.netloc])
is_valid_url(url) == url.scheme # "" /\ url.netloc # ""

\* get_domain: urlparse(url).netloc
get_domain(url) == url.netloc

-----------------------------------------------------------------------------
(* Sequences *)

RECURSIVE SeqsUpTo(_, _)
SeqsUpTo(S, n) ==
    IF n = 0 THEN { <<>> }
    ELSE LET shorter == SeqsUpTo(S, n - 1) IN
         shorter \cup { Append(s, x) : s \in shorter, x \in S }

Range(s) == { s[i] : i \in 1..Len(s) }

Min(a, b) == IF a <= b THEN a ELSE b

-----------------------------------------------------------------------------
(* What requests.get may produce for a URL *)

\* exceptions raised inside the try block of scrape_page: by requests.get
\* (transport failure, timeout) or by the parser on the body
Exceptions == { "ConnectionError", "ParserError" }

\* status codes of a delivered response
StatusCodes == { 200, 404 }

\* the <title> element of the body: absent, or present with its .string
TitleStrings == { "Home" }
HasTitle == { TRUE }

\* lengths of soup.get_text(separator=' ', strip=True) of the body
TextLens == { 12 }

\* a delivered response: its status code and what the parser finds in the body
Responses ==
    [ kind : {"response"}, status_code : StatusCodes,
      has_title : HasTitle, title_string : TitleStrings,
      text_len : TextLens, hrefs : SeqsUpTo(Hrefs, MaxLinks) ]

Outcomes == [ kind : {"exception"}, error : Exceptions ] \cup Responses

\* what the log keeps of a request: the URL and the outcome without the body
logged(url, outcome) ==
    IF outcome.kind = "exception"
    THEN [ url |-> url, kind |-> "exception", status_code |-> 0 ]
    ELSE [ url |-> url, kind |-> "response", status_code |-> outcome.status_code ]

-----------------------------------------------------------------------------
(* scrape_page *)

\* text_content = soup.get_text(...)[:5000]
ContentLimit == 5000

\* a variant of scrape_page without the call of raise_for_status
raise_for_status_missing(status_code) == FALSE

\* response.raise_for_status() raises HTTPError for a 4xx or 5xx status
raise_for_status(status_code) == status_code >= 400 /\ status_code < 600

\* whether the try block of scrape_page leaves through its except clause
raises(outcome) ==
    \/ outcome.kind = "exception"
    \/ outcome.kind = "response" /\ raise_for_status(outcome.status_code)

\* str(e) of the exception caught
exception_text(outcome) ==
    IF outcome.kind = "exception" THEN outcome.error ELSE "HTTPError"

\* the links loop: urljoin every href, keep the valid ones, in order
RECURSIVE extract_links(_, _)
extract_links(url, hrefs) ==
    IF hrefs = <<>> THEN <<>>
    ELSE LET full_url == urljoin(url, Head(hrefs)) IN
         IF is_valid_url(full_url)
         THEN <<full_url>> \o extract_links(url, Tail(hrefs))
         ELSE extract_links(url, Tail(hrefs))

\* the record of the except clause.  content stands for the string
\* "Error scraping page: " + str(e)
error_record(url, e) ==
    [ url |-> url, title |-> "Error",
      content |-> [error |-> e, len |-> 0],
      links |-> <<>>, status |-> 0 ]

\* a variant of the text extraction without the slice
text_content_whole(text_len) == text_len

\* soup.get_text(separator=' ', strip=True)[:5000], as the number of characters
text_content(text_len) == Min(text_len, ContentLimit)

\* the record of the try block.  content stands for a text of len characters
page_record(url, response) ==
    [ url |-> url,
      title |-> IF response.has_title THEN response.title_string ELSE "No Title",
      content |-> [error |-> "", len |-> text_content(response.text_len)],
      links |-> extract_links(url, response.hrefs),
      status |-> response.status_code ]

scrape_page(url, outcome) ==
    IF raises(outcome)
    THEN error_record(url, exception_text(outcome))
    ELSE page_record(url, outcome)

-----------------------------------------------------------------------------
(* process_queue *)

\* variants of the loop condition: one page too many, one page too few
LoopCond_one_more == queue # <<>> /\ Cardinality(visited_urls) <= max_pages
LoopCond_one_less == queue # <<>> /\ Cardinality(visited_urls) < max_pages - 1

\* the condition of the while loop
LoopCond == queue # <<>> /\ Cardinality(visited_urls) < max_pages

\* variants of the dequeue: queue.pop() takes the newest entry; queue[0] reads
\* the oldest entry and leaves it in the queue
pop(q) == [item |-> q[Len(q)], rest |-> SubSeq(q, 1, Len(q) - 1)]
peek(q) == [item |-> Head(q), rest |-> q]

\* queue.popleft(): the entry taken and the queue left
popleft(q) == [item |-> Head(q), rest |-> Tail(q)]

\* a variant of the loop without the test that skips an iteration
never_visited(url, visited) == FALSE

\* the test that skips an iteration
already_visited(url, visited) == url \in visited

\* a variant of the inner loop without the scope test
any_domain(link, domain) == TRUE

\* the scope test of the inner loop
in_scope(link, domain) == include_external \/ get_domain(link) = domain

\* variants of the inner loop: links already queued are left out; the scope
\* test is missing; the loop stops after the first link appended
new_entries_not_queued(links, visited, domain) ==
    SelectSeq(links, LAMBDA link : /\ link \notin visited
                                   /\ link \notin Range(queue)
                                   /\ (include_external \/ get_domain(link) = domain))
new_entries_unscoped(links, visited, domain) ==
    SelectSeq(links, LAMBDA link : link \notin visited)
new_entries_first_only(links, visited, domain) ==
    LET all == SelectSeq(links, LAMBDA link :
                   /\ link \notin visited
                   /\ (include_external \/ get_domain(link) = domain))
    IN IF all = <<>> THEN <<>> ELSE <<Head(all)>>

\* the inner loop: the links appended to the queue, in order
new_entries(links, visited, domain) ==
    SelectSeq(links, LAMBDA link : link \notin visited /\ in_scope(link, domain))

\* a variant of the progress value taken before the URL is added to visited
progress_value_before(n, m) == IF n - 1 >= m THEN <<1, 1>> ELSE <<n - 1, m>>

\* min(len(visited_urls) / max_pages, 1.0) as a fraction <<numerator, denominator>>
progress_value(n, m) == IF n >= m THEN <<1, 1>> ELSE <<n, m>>

\* a variant of the loop without the call of time.sleep
no_sleep(n) == n

\* time.sleep(delay): the count of pauses taken
sleep(n) == n + 1

\* a variant of the skip that pauses before it continues
process_queue_skip_pausing ==
    /\ pc = "running"
    /\ queue # <<>> /\ Cardinality(visited_urls) < max_pages
    /\ Head(queue) \in visited_urls
    /\ queue' = Tail(queue)
    /\ sleeps' = sleeps + 1
    /\ UNCHANGED <<scraped_data, visited_urls, base_url, max_pages,
                   include_external, base_domain, pc, message, fetch_log,
                   progress_log, stale, wire>>

\* one iteration that pops an already visited URL and continues
process_queue_skip ==
    /\ pc = "running"
    /\ LoopCond
    /\ LET popped == popleft(queue) IN
       /\ already_visited(popped.item, visited_urls)
       /\ queue' = popped.rest
    /\ UNCHANGED <<scraped_data, visited_urls, base_url, max_pages,
                   include_external, base_domain, pc, message, fetch_log,
                   progress_log, sleeps, stale, wire>>

\* one iteration that visits the popped URL
process_queue_visit ==
    /\ pc = "running"
    /\ LoopCond
    /\ LET popped == popleft(queue)
           current_url == popped.item
       IN
       /\ ~already_visited(current_url, visited_urls)
       /\ \E outcome \in Outcomes :
            LET page_data == scrape_page(current_url, outcome)
                visited == visited_urls \cup {current_url}
            IN
            /\ visited_urls' = visited
            /\ fetch_log' = Append(fetch_log, logged(current_url, outcome))
            /\ scraped_data' = Append(scraped_data, page_data)
            /\ queue' = popped.rest \o new_entries(page_data.links, visited, base_domain)
            /\ progress_log' = Append(progress_log,
                                      progress_value(Cardinality(visited), max_pages))
            /\ sleeps' = sleep(sleeps)
    /\ UNCHANGED <<base_url, max_pages, include_external, base_domain, pc, message,
                   stale, wire>>

\* the loop condition is false: the function returns, the handler reports success
process_queue_exit ==
    /\ pc = "running"
    /\ ~LoopCond
    /\ pc' = "completed"
    /\ message' = "Scraping completed!"
    /\ UNCHANGED <<scraped_data, visited_urls, queue, base_url, max_pages,
                   include_external, base_domain, fetch_log, progress_log, sleeps,
                   stale, wire>>

-----------------------------------------------------------------------------
(* The "Start Scraping" handler *)

\* variants of the reset: the visited set is kept, the queue starts empty
kept_visited_urls == visited_urls
empty_queue(url) == <<>>

\* the values the session state is reset to
fresh_scraped_data == <<>>
fresh_visited_urls == {}
fresh_queue(url) == <<url>>

\* the button is pressed with an empty or invalid URL in the text input: an
\* error is shown and neither the session state nor process_queue is touched
start_scraping_invalid ==
    /\ pc # "running"
    /\ \E url \in SeedInputs :
         /\ url = EmptyUrl \/ ~is_valid_url(url)
         /\ base_url' = url
         /\ message' = IF url = EmptyUrl
                       THEN "Please enter a valid URL"
                       ELSE "Please enter a valid URL including http:// or https://"
    /\ pc' = "idle"
    /\ UNCHANGED <<scraped_data, visited_urls, queue, max_pages,
                   include_external, base_domain, fetch_log, progress_log, sleeps,
                   stale, wire>>

\* the button is pressed with a valid URL: reset, then enter process_queue
start_scraping_valid ==
    /\ pc # "running"
    /\ \E url \in SeedInputs, pages \in 1..MaxPages, ext \in BOOLEAN :
         /\ url # EmptyUrl /\ is_valid_url(url)
         /\ base_url' = url
         /\ max_pages' = pages
         /\ include_external' = ext
         /\ scraped_data' = fresh_scraped_data
         /\ visited_urls' = fresh_visited_urls
         /\ queue' = fresh_queue(url)
         /\ base_domain' = get_domain(url)
    /\ pc' = "running"
    /\ message' = ""
    /\ fetch_log' = <<>>
    /\ progress_log' = <<>>
    /\ sleeps' = 0
    /\ stale' = (scraped_data # <<>> /\ visited_urls # {} /\ queue # <<>>)
    /\ UNCHANGED wire

-----------------------------------------------------------------------------
(* The specification *)

\* the first script execution: the session state is created empty
Init ==
    /\ scraped_data = <<>>
    /\ visited_urls = {}
    /\ queue = <<>>
    /\ base_url \in SeedInputs
    /\ max_pages \in 1..MaxPages
    /\ include_external \in BOOLEAN
    /\ base_domain = ""
    /\ pc = "idle"
    /\ message = ""
    /\ fetch_log = <<>>
    /\ progress_log = <<>>
    /\ sleeps = 0
    /\ stale = FALSE
    /\ wire = <<>>

Next ==
    \/ start_scraping_invalid
    \/ start_scraping_valid
    \/ process_queue_skip
    \/ process_queue_visit
    \/ process_queue_exit

Spec == Init /\ [][Next]_vars

\* the loop runs on one thread and every call in it returns (the fetch has a
\* timeout), so an iteration that can be taken is taken
FairSpec ==
    /\ Spec
    /\ WF_vars(process_queue_skip)
    /\ WF_vars(process_queue_visit)
    /\ WF_vars(process_queue_exit)

-----------------------------------------------------------------------------
(* scrape_page on its own: one call on one delivered outcome *)

\* Python's None, the .string of a <title> element that has no single string
\* child (an empty <title>, or one with nested markup); no text equals it
None == "<None>"

\* the URLs of the pages scraped
PageUrls ==
    { Url("https", "a.com", "/"),        \* "https://a.com/"
      Url("https", "b.com", "/p1") }     \* "https://b.com/p1"

\* the href attribute values of the anchors of a page
AnchorHrefs ==
    { EmptyUrl,                          \* ""
      Url("", "", "/p1"),                \* "/p1"
      UrlFrag("", "", "", "top"),        \* "#top"
      Url("https", "b.com", "/"),        \* "https://b.com/"
      Url("", "c.com", "/x"),            \* "//c.com/x"
      Url("mailto", "", "test@example.com"),   \* "mailto:test@example.com"
      Url("javascript", "", "void(0)") }       \* "javascript:void(0)"

\* lengths of the visible text of a page, around the limit of the slice
PageTextLens == { 0, 4999, 5000, 5001, 9000 }

PageResponses ==
    [ kind : {"response"}, status_code : StatusCodes,
      has_title : BOOLEAN, title_string : {"Home", None},
      text_len : PageTextLens, hrefs : SeqsUpTo(AnchorHrefs, MaxLinks) ]

PageOutcomes == [ kind : {"exception"}, error : Exceptions ] \cup PageResponses

\* a URL to scrape and the outcome requests.get will deliver for it
ScrapeInit ==
    /\ scraped_data = <<>>
    /\ visited_urls = {}
    /\ \E url \in PageUrls : queue = <<url>> /\ base_url = url
    /\ wire \in PageOutcomes
    /\ max_pages = 1
    /\ include_external = FALSE
    /\ base_domain = ""
    /\ pc = "idle"
    /\ message = ""
    /\ fetch_log = <<>>
    /\ progress_log = <<>>
    /\ sleeps = 0
    /\ stale = FALSE

\* page_data = scrape_page(current_url); scraped_data.append(page_data)
scrape_page_call ==
    /\ pc = "idle"
    /\ scraped_data' = Append(scraped_data, scrape_page(Head(queue), wire))
    /\ pc' = "completed"
    /\ UNCHANGED <<visited_urls, queue, base_url, max_pages, include_external,
                   base_domain, message, fetch_log, progress_log, sleeps, stale,
                   wire>>

ScrapeNext == scrape_page_call

ScrapeSpec == ScrapeInit /\ [][ScrapeNext]_vars

-----------------------------------------------------------------------------
(* Vocabulary of the properties *)

\* the urls of a list of records or of log entries, in order
Urls(recs) == [ i \in 1..Len(recs) |-> recs[i].url ]

NoDuplicates(s) == \A i, j \in 1..Len(s) : s[i] = s[j] => i = j

\* the host of a URL, read off the URL itself
HostOf(url) == url.netloc

\* a request that did not deliver a page: an exception of the transport or
\* of the parser, or a 4xx/5xx status
FailedRequest(entry) == entry.kind = "exception" \/ entry.status_code >= 400

\* the step is a loop iteration that visited a page
VisitStep == Len(scraped_data') = Len(scraped_data) + 1

NewRecord == scraped_data'[Len(scraped_data')]

BudgetReached == Cardinality(visited_urls) >= max_pages

-----------------------------------------------------------------------------
(* C1: at every iteration boundary of process_queue and after the run, the  *)
(* number of records equals the number of visited URLs, and that number is  *)
(* at most max_pages.                                                       *)
C1_CountsAgreeWithinBudget ==
    /\ Len(scraped_data) = Cardinality(visited_urls)
    /\ Cardinality(visited_urls) <= max_pages

\* the budget stopped a run of several pages with entries left in the queue
C1_Witness ==
    /\ pc = "completed"
    /\ max_pages >= 2
    /\ Len(scraped_data) = max_pages
    /\ queue # <<>>

(* C2: whatever the link graph, no two records have the same url; a URL is  *)
(* put into visited once, with the one request made for it, so no URL is    *)
(* requested twice.                                                         *)
C2_NoUrlTwice ==
    /\ NoDuplicates(Urls(scraped_data))
    /\ NoDuplicates(Urls(fetch_log))
    /\ Urls(fetch_log) = Urls(scraped_data)
    /\ visited_urls = Range(Urls(scraped_data))

\* a finished run over a graph with a page linking to itself, a page linking
\* twice to the same URL, and two pages linking to each other
C2_Witness ==
    /\ pc = "completed"
    /\ \E i \in 1..Len(scraped_data) :
         scraped_data[i].url \in Range(scraped_data[i].links)
    /\ \E i \in 1..Len(scraped_data) :
         /\ Len(scraped_data[i].links) = 2
         /\ scraped_data[i].links[1] = scraped_data[i].links[2]
    /\ \E i, j \in 1..Len(scraped_data) :
         /\ i # j
         /\ scraped_data[j].url \in Range(scraped_data[i].links)
         /\ scraped_data[i].url \in Range(scraped_data[j].links)

(* C3: with include_external false, every URL in the frontier (the seed and *)
(* every enqueued link), and so every record's url, has exactly the seed's  *)
(* host; with include_external true, a visit enqueues every link of the new *)
(* record that is not visited, whatever its host.                           *)
C3_FrontierInScope ==
    (pc # "idle" /\ ~include_external) =>
        /\ \A i \in 1..Len(queue) : HostOf(queue[i]) = HostOf(base_url)
        /\ \A i \in 1..Len(scraped_data) :
             HostOf(scraped_data[i].url) = HostOf(base_url)

C3_ExternalEnqueued ==
    (VisitStep /\ include_external) =>
        queue' = Tail(queue) \o
                 SelectSeq(NewRecord.links, LAMBDA link : link \notin visited_urls')

C3_Scope == []C3_FrontierInScope /\ [][C3_ExternalEnqueued]_vars

\* without external links: a page linked to another host, and the crawl went
\* on to a second page of the seed's host
C3_Witness ==
    /\ ~include_external
    /\ Len(scraped_data) >= 2
    /\ \E link \in Range(scraped_data[1].links) : HostOf(link) # HostOf(base_url)

(* C4: a failed request (transport or parse exception, 4xx/5xx response)    *)
(* leaves exactly one record for its URL, with status 0, title "Error" and  *)
(* no links; nothing is enqueued from it and the run stays in its loop; a   *)
(* record has status 0 only for a failed request.                           *)
C4_DegradedRecords ==
    /\ Len(fetch_log) = Len(scraped_data)
    /\ \A i \in 1..Len(scraped_data) :
         /\ scraped_data[i].url = fetch_log[i].url
         /\ FailedRequest(fetch_log[i]) =>
              /\ scraped_data[i].status = 0
              /\ scraped_data[i].title = "Error"
              /\ scraped_data[i].links = <<>>
         /\ scraped_data[i].status = 0 => FailedRequest(fetch_log[i])

C4_FailureStep ==
    (VisitStep /\ FailedRequest(fetch_log'[Len(fetch_log')])) =>
        /\ queue' = Tail(queue)
        /\ pc' = "running"
        /\ Len(fetch_log') = Len(fetch_log) + 1

C4_FailureIsolated == []C4_DegradedRecords /\ [][C4_FailureStep]_vars

\* a 4xx response in the middle of a run, with a page scraped after it
C4_Witness ==
    \E i, j \in 1..Len(scraped_data) :
        /\ i < j
        /\ fetch_log[i].kind = "response"
        /\ fetch_log[i].status_code = 404
        /\ scraped_data[i].status = 0
        /\ scraped_data[j].status = 200

(* C5: every run started with a valid seed reaches Completed, whatever the  *)
(* link graph and the outcomes of the requests: the loop of process_queue   *)
(* does not run forever.                                                    *)
C5_RunCompletes == (pc = "running") ~> (pc = "completed")

\* a finished run over a cycle whose pages kept yielding links: the two pages
\* link to each other and the queue still holds entries
C5_Witness ==
    /\ pc = "completed"
    /\ Len(scraped_data) = 2
    /\ queue # <<>>
    /\ scraped_data[2].url \in Range(scraped_data[1].links)
    /\ scraped_data[1].url \in Range(scraped_data[2].links)
    /\ Len(scraped_data[2].links) = 2

(* C6: a run is Completed only with the frontier empty or the budget        *)
(* reached: a run that ended with fewer than max_pages records has an empty *)
(* frontier, and a run leaves its loop under no other condition.            *)
C6_CompletedState ==
    pc = "completed" =>
        /\ queue = <<>> \/ Len(scraped_data) >= max_pages
        /\ Len(scraped_data) < max_pages => queue = <<>>

C6_LeavingTheLoop ==
    (pc = "running" /\ pc' # "running") =>
        /\ pc' = "completed"
        /\ queue = <<>> \/ BudgetReached
        /\ UNCHANGED session_state

C6_EndsOnlyWhenDone == []C6_CompletedState /\ [][C6_LeavingTheLoop]_vars

\* a run with a failed request that ended below the budget, frontier exhausted
C6_Witness ==
    /\ pc = "completed"
    /\ Len(scraped_data) = 2
    /\ max_pages = 3
    /\ queue = <<>>
    /\ scraped_data[2].status = 0

(* C7: the urls of results are the breadth-first order from the seed over   *)
(* the extracted links (document order, failed pages without links), kept   *)
(* to the scope and cut at max_pages.  The order is a function of the seed, *)
(* the options and the link graph, so equal inputs give equal results.      *)

\* the link graph as the records show it; a page not fetched has no links yet
LinksOf(url) ==
    IF \E i \in 1..Len(scraped_data) : scraped_data[i].url = url
    THEN (CHOOSE r \in Range(scraped_data) : r.url = url).links
    ELSE <<>>

ScopeAllows(url) == include_external \/ HostOf(url) = HostOf(base_url)

\* breadth-first search that marks a node when it is discovered: order lists
\* the nodes discovered so far, next is the index of the node to expand
RECURSIVE Discover(_, _)
Discover(order, links) ==
    IF links = <<>> THEN order
    ELSE IF Head(links) \in Range(order) \/ ~ScopeAllows(Head(links))
         THEN Discover(order, Tail(links))
         ELSE Discover(Append(order, Head(links)), Tail(links))

RECURSIVE BreadthFirst(_, _)
BreadthFirst(order, next) ==
    IF next > Len(order) THEN order
    ELSE BreadthFirst(Discover(order, LinksOf(order[next])), next + 1)

BreadthFirstOrder == BreadthFirst(<<base_url>>, 1)

C7_BreadthFirstOrder ==
    pc # "idle" =>
        /\ Urls(scraped_data) =
             SubSeq(BreadthFirstOrder, 1, Len(scraped_data))
        /\ pc = "completed" =>
             Len(scraped_data) = Min(max_pages, Len(BreadthFirstOrder))

\* three pages visited, where the second page discovered a URL that a
\* depth-first order would have visited third
C7_Witness ==
    /\ pc = "completed"
    /\ Len(scraped_data) = 3
    /\ scraped_data[3].url \in Range(scraped_data[1].links)
    /\ \E link \in Range(scraped_data[2].links) :
         /\ link \notin visited_urls
         /\ link \notin Range(scraped_data[1].links)
         /\ link \in Range(queue)

(* C8: pressing Start with an empty seed, or one without scheme or host,    *)
(* reports an error and starts no run: no request, no record, and queue,    *)
(* visited and results stay as they were, also those of an earlier run.     *)
ErrorMessages ==
    { "Please enter a valid URL",
      "Please enter a valid URL including http:// or https://" }

InvalidSeed(url) == url = EmptyUrl \/ url.scheme = "" \/ url.netloc = ""

C8_RunsHaveValidSeed ==
    /\ pc # "idle" => ~InvalidSeed(base_url)
    /\ message \in ErrorMessages => pc = "idle"

C8_RejectedStart ==
    (pc # "running" /\ InvalidSeed(base_url')) =>
        /\ pc' = "idle"
        /\ message' \in ErrorMessages
        /\ UNCHANGED <<session_state, fetch_log, base_domain>>

C8_InvalidSeedStartsNothing == []C8_RunsHaveValidSeed /\ [][C8_RejectedStart]_vars

\* a rejected start after a run: its records and queue entries are still there
C8_Witness ==
    /\ pc = "idle"
    /\ message \in ErrorMessages
    /\ Len(scraped_data) >= 2
    /\ queue # <<>>

(* C9: every run with a valid seed starts fresh, whatever an earlier run    *)
(* left: the frontier holds the seed alone, visited and results are empty.  *)
C9_FreshStart ==
    (pc # "running" /\ pc' = "running") =>
        /\ queue' = <<base_url'>>
        /\ visited_urls' = {}
        /\ scraped_data' = <<>>
        /\ fetch_log' = <<>>

C9_RunStartsFresh == [][C9_FreshStart]_vars

\* a run started over the records, visited URLs and queue entries of an
\* earlier run has visited a page
C9_Witness ==
    /\ stale
    /\ pc = "running"
    /\ Len(scraped_data) = 1

(* C10: the first record is the seed's; with max_pages = 1 the finished run *)
(* has the seed's record alone, whose links were computed (and the ones in  *)
(* scope left in the frontier) while the seed was the only URL requested.   *)
C10_SeedFirst ==
    /\ (pc # "idle" /\ scraped_data # <<>>) => scraped_data[1].url = base_url
    /\ (pc = "completed" /\ max_pages = 1) =>
         /\ Len(scraped_data) = 1
         /\ Urls(fetch_log) = <<base_url>>
         /\ Range(queue) \subseteq Range(scraped_data[1].links)
         /\ \A link \in Range(scraped_data[1].links) :
              (link # base_url /\ ScopeAllows(link)) => link \in Range(queue)

\* a one-page run whose page has links that stay in the frontier
C10_Witness ==
    /\ pc = "completed"
    /\ max_pages = 1
    /\ Len(scraped_data) = 1
    /\ Len(scraped_data[1].links) = 2
    /\ Len(queue) = 2

(* C11: every URL in a record's links is absolute, with a scheme and a      *)
(* host: an href that resolves to a URL without a host (mailto:,            *)
(* javascript:) is left out, the others are kept in document order, so a    *)
(* page whose anchors are only mailto: and javascript: has no links.        *)
HostlessSchemes == { "mailto", "javascript" }

\* the hrefs of the page that carry a host or take the page's host
ResolvableHrefs(hrefs) == SelectSeq(hrefs, LAMBDA h : h.scheme \notin HostlessSchemes)

C12_ContentBounded ==
    \A i \in 1..Len(scraped_data) :
        scraped_data[i].status # 0 =>
            /\ scraped_data[i].content.len <= 5000
            /\ wire.text_len <= 5000 => scraped_data[i].content.len = wire.text_len
            /\ wire.text_len > 5000 => scraped_data[i].content.len = 5000

\* a page with 9000 characters of text, cut to 5000
C12_Witness ==
    /\ pc = "completed"
    /\ wire.kind = "response"
    /\ wire.text_len = 9000
    /\ scraped_data[1].status = 200
    /\ scraped_data[1].content.len = 5000

(* C13: the scraper respects robots.txt: no URL that the site's robots.txt  *)
(* disallows is requested during a run.                                     *)

\* the URLs a robots.txt of a.com with the line "Disallow: /p1" rules out
RobotsDisallowed == { Url("https", "a.com", "/p1") }

C13_RobotsRespected ==
    \A i \in 1..Len(fetch_log) : fetch_log[i].url \notin RobotsDisallowed

(* C14: an iteration that pops an already visited URL is a pure skip: the   *)
(* frontier loses that entry; visited, results, the progress values and the *)
(* pauses taken stay as they are, and no request is made.                   *)
C14_SkipStep ==
    (pc = "running" /\ pc' = "running" /\ queue # <<>>
       /\ Head(queue) \in visited_urls) =>
        /\ queue' = Tail(queue)
        /\ UNCHANGED <<visited_urls, scraped_data, progress_log, sleeps, fetch_log>>

C14_SkipIsPure == [][C14_SkipStep]_vars

\* the state only a skip leaves: the first page linked twice to the second,
\* the second had no links, and the queue is empty with the budget not used up
C14_Witness ==
    /\ pc = "running"
    /\ max_pages = 3
    /\ Len(scraped_data) = 2
    /\ scraped_data[1].links = <<scraped_data[2].url, scraped_data[2].url>>
    /\ scraped_data[2].links = <<>>
    /\ queue = <<>>
    /\ sleeps = 2
    /\ Len(progress_log) = 2
    /\ Len(fetch_log) = 2

(* C15: a link of the new record is appended to the tail of the frontier    *)
(* iff it is then not in visited and passes the scope filter; the           *)
(* frontier's content is not consulted, so a URL can be queued several      *)
(* times.                                                                   *)
C15_EnqueueStep ==
    VisitStep =>
        queue' = Tail(queue) \o
                 SelectSeq(NewRecord.links,
                           LAMBDA link : link \notin visited_urls' /\ ScopeAllows(link))

C15_EnqueueRule == [][C15_EnqueueStep]_vars

\* two pages linked to the same URL: it is in the frontier twice, and unvisited
C15_Witness ==
    /\ pc = "running"
    /\ Len(scraped_data) = 2
    /\ Len(queue) >= 2
    /\ \E i, j \in 1..Len(queue) : i # j /\ queue[i] = queue[j]
    /\ \E link \in Range(queue) :
         /\ link \notin visited_urls
         /\ link \in Range(scraped_data[1].links)
         /\ link \in Range(scraped_data[2].links)

(* C16: every visit, successful or failed, is followed by exactly one       *)
(* pause, and nothing else pauses: the pauses of a run are as many as its   *)
(* records, one between any two consecutive requests.                       *)
C16_PausesCounted == sleeps = Len(scraped_data) /\ sleeps = Len(fetch_log)

C16_PauseStep ==
    /\ VisitStep => sleeps' = sleeps + 1
    /\ (pc = "running" /\ sleeps' # sleeps) => VisitStep

C16_OnePausePerVisit == []C16_PausesCounted /\ [][C16_PauseStep]_vars

\* a successful request followed by a failed one, with a pause after each
C16_Witness ==
    /\ Len(scraped_data) = 2
    /\ scraped_data[1].status = 200
    /\ scraped_data[2].status = 0
    /\ sleeps = 2
    /\ max_pages = 3

(* C17: each visit emits one progress value, min(len(visited)/max_pages,    *)
(* 1.0) taken after the record is appended; the values lie in [0, 1], grow  *)
(* strictly within a run, and 1.0 is emitted exactly when len(visited)      *)
(* reaches max_pages.  A value is a fraction <<numerator, denominator>>.    *)
FractionEq(f, n, d) == f[1] * d = n * f[2]
FractionLess(f, g) == f[1] * g[2] < g[1] * f[2]

C17_ProgressValues ==
    /\ Len(progress_log) = Len(scraped_data)
    /\ \A i \in 1..Len(progress_log) :
         LET f == progress_log[i] IN
         /\ f[2] > 0 /\ 0 <= f[1] /\ f[1] <= f[2]
         /\ FractionEq(f, Min(i, max_pages), max_pages)
         /\ FractionEq(f, 1, 1) <=> i = max_pages
         /\ i > 1 => FractionLess(progress_log[i - 1], f)

\* a run of three pages: 1/3, 2/3 and 1.0
C17_Witness ==
    /\ pc = "completed"
    /\ max_pages = 3
    /\ Len(progress_log) = 3
    /\ FractionEq(progress_log[1], 1, 3)
    /\ FractionEq(progress_log[3], 1, 1)

(* C18: the title of every record is a text: the document's title text when *)
(* the page has one, "No Title" when it has none (also for a <title>        *)
(* element without a single text, empty or with nested markup), "Error" on  *)
(* a failed fetch; it is never null.                                        *)
C18_TitleIsText ==
    \A i \in 1..Len(scraped_data) :
        /\ scraped_data[i].title # None
        /\ scraped_data[i].status = 0 => scraped_data[i].title = "Error"
        /\ scraped_data[i].status # 0 =>
             scraped_data[i].title =
                 IF wire.has_title /\ wire.title_string # None
                 THEN wire.title_string
                 ELSE "No Title"

(* C19: every record but the seed's has a url found in the links of an      *)
(* earlier record and allowed by the scope filter: the crawl visits no URL  *)
(* that was not discovered on a page already visited.                       *)
C19_VisitedWereDiscovered ==
    pc # "idle" =>
        \A j \in 1..Len(scraped_data) :
            \/ j = 1 /\ scraped_data[j].url = base_url
            \/ /\ j > 1
               /\ ScopeAllows(scraped_data[j].url)
               /\ \E i \in 1..(j - 1) :
                    scraped_data[j].url \in Range(scraped_data[i].links)

\* external links allowed: the third page, of another host than the seed's,
\* was found on the second page only
C19_Witness ==
    /\ include_external
    /\ Len(scraped_data) = 3
    /\ scraped_data[3].url \notin Range(scraped_data[1].links)
    /\ scraped_data[3].url \in Range(scraped_data[2].links)
    /\ HostOf(scraped_data[3].url) # HostOf(base_url)

(* C20: a run that Completed with fewer than max_pages records is           *)
(* exhaustive: every link of every record that passes the scope filter is   *)
(* the url of a record.                                                     *)
C20_ExhaustiveBelowBudget ==
    (pc = "completed" /\ Len(scraped_data) < max_pages) =>
        \A i \in 1..Len(scraped_data) :
            \A link \in Range(scraped_data[i].links) :
                ScopeAllows(link) =>
                    \E j \in 1..Len(scraped_data) : scraped_data[j].url = link

\* external links allowed: two pages with two links each, all of them visited,
\* and the run ended below the budget
C20_Witness ==
    /\ pc = "completed"
    /\ include_external
    /\ max_pages = 3
    /\ Len(scraped_data) = 2
    /\ Len(scraped_data[1].links) = 2
    /\ Len(scraped_data[2].links) = 2
    /\ scraped_data[2].status = 200

=============================================================================
